---------------------------- MODULE Spec2Model ----------------------------
(***************************************************************************)
(* Model of the database exploration agent of db-agent:                    *)
(*   - the SQL guard of app/guard.py (text as sequences of characters),    *)
(*   - the query executor db_read_query of app/db.py,                      *)
(*   - the planner graph decide -> act -> judge of app/planner.py,         *)
(*   - the MCP database tool run_sql and the guard of mcp/src/core,        *)
(*   - the conversation coordinator and the ReAct engine of mcp/src/core.  *)
(***************************************************************************)
EXTENDS Integers, Sequences, FiniteSets, TLC

VARIABLES
    \* ---- SQL guard called as a pure function (app/guard.py)
    g_in,          \* the text handed to ensure_safe_sql
    g_default,     \* default_limit
    g_max,         \* max_limit
    g_out,         \* its result, or NotCalled
    g_pass,        \* how many times a returned statement was handed back to the guard
    \* ---- MCP tool run_sql (mcp/src/tools/database/database_tools.py)
    m_sql,         \* the tool's sql argument
    m_conn,        \* the texts handed to conn.execute, in order
    m_res,         \* the tool's result, or NotCalled
    \* ---- planner session state S (app/planner.py) and the graph position
    question, steps, known_tables, known_schemas, last_error, done, answer,
    max_steps,
    pc,            \* next node of the graph: decide, act, judge, END, raised
    exc,           \* the exception that left the graph, "" when none
    supersteps,    \* nodes the graph has run in the current invoke
    proposed,      \* the validated decision of the latest decide, before the evidence guard
    conn,          \* the texts db_read_query handed to conn.execute, one for each
                   \* call of it, since the latest decide began
    run            \* history of the current invoke: started on an empty trace,
                   \* no finish proposed so far, decisions asked for so far,
                   \* the value the latest decide handed to validate_decide
    ,
    \* ---- run_conversation_stream (mcp/src/core/conversation_coordinator.py)
    state,         \* the AgentState of the run
    messages,      \* the local list messages
    step_count,
    events,        \* the events the generator has yielded in the current run
    saved,         \* what load_conversation returns for the session
    call,          \* the arguments of the current call and its history
    c_pc           \* idle, loop (before a pass of the while loop), exit, ended

gvars == <<g_in, g_default, g_max, g_out, g_pass>>
mvars == <<m_sql, m_conn, m_res>>
pvars == <<question, steps, known_tables, known_schemas, last_error, done,
           answer, max_steps, pc, exc, supersteps, proposed, conn, run>>
cvars == <<state, messages, step_count, events, saved, call, c_pc>>
vars == <<gvars, mvars, pvars, cvars>>

-----------------------------------------------------------------------------
(* Text: a Python str is a sequence of one-character strings.              *)

LowerChars == <<"a","b","c","d","e","f","g","h","i","j","k","l","m",
                "n","o","p","q","r","s","t","u","v","w","x","y","z">>
UpperChars == <<"A","B","C","D","E","F","G","H","I","J","K","L","M",
                "N","O","P","Q","R","S","T","U","V","W","X","Y","Z">>
DigitChars == <<"0","1","2","3","4","5","6","7","8","9">>

Range(f) == {f[i] : i \in DOMAIN f}

LowerSet == Range(LowerChars)
DigitSet == Range(DigitChars)
\* \w of the re module
WordSet == Range(LowerChars) \cup Range(UpperChars) \cup Range(DigitChars) \cup {"_"}
\* \s of the re module
SpaceSet == {" ", "\n", "\t", "\r"}
UpperOf == [c \in LowerSet |-> UpperChars[CHOOSE i \in 1..26 : LowerChars[i] = c]]

upper1(c) == IF c \in LowerSet THEN UpperOf[c] ELSE c

\* str.upper()
upper(s) == [i \in 1..Len(s) |-> upper1(s[i])]

DigitVal(c) == CHOOSE d \in 0..9 : DigitChars[d + 1] = c

\* int(<digits>)
RECURSIVE int(_)
int(ds) ==
    IF ds = <<>> THEN 0
    ELSE 10 * int(SubSeq(ds, 1, Len(ds) - 1)) + DigitVal(ds[Len(ds)])

\* f"{n}" of a non-negative int
RECURSIVE str(_)
str(n) ==
    IF n < 10 THEN <<DigitChars[n + 1]>>
    ELSE str(n \div 10) \o <<DigitChars[(n % 10) + 1]>>

\* the text w stands in s at position i
At(s, i, w) ==
    /\ i >= 1
    /\ i + Len(w) - 1 <= Len(s)
    /\ s[i] = w[1]
    /\ SubSeq(s, i, i + Len(w) - 1) = w

WordCharAt(s, i) == i \in 1..Len(s) /\ s[i] \in WordSet

\* \b between s[i-1] and s[i]
wb(s, i) == WordCharAt(s, i - 1) # WordCharAt(s, i)

\* first position >= i that holds no whitespace (the end of a greedy \s*)
RECURSIVE skip_s(_, _)
skip_s(s, i) == IF i <= Len(s) /\ s[i] \in SpaceSet THEN skip_s(s, i + 1) ELSE i

\* first position >= i that holds no digit (the end of a greedy \d*)
RECURSIVE skip_d(_, _)
skip_d(s, i) == IF i <= Len(s) /\ s[i] \in DigitSet THEN skip_d(s, i + 1) ELSE i

\* str.strip()
RECURSIVE rstrip(_)
rstrip(s) ==
    IF s # <<>> /\ s[Len(s)] \in SpaceSet THEN rstrip(SubSeq(s, 1, Len(s) - 1)) ELSE s

strip(s) == rstrip(SubSeq(s, skip_s(s, 1), Len(s)))

-----------------------------------------------------------------------------
(* app/guard.py                                                            *)

\* the words of the patterns, in upper case
W ==
    [ insert |-> <<"I","N","S","E","R","T">>,
      update |-> <<"U","P","D","A","T","E">>,
      delete |-> <<"D","E","L","E","T","E">>,
      merge |-> <<"M","E","R","G","E">>,
      replace |-> <<"R","E","P","L","A","C","E">>,
      drop |-> <<"D","R","O","P">>,
      truncate |-> <<"T","R","U","N","C","A","T","E">>,
      alter |-> <<"A","L","T","E","R">>,
      create |-> <<"C","R","E","A","T","E">>,
      grant |-> <<"G","R","A","N","T">>,
      revoke |-> <<"R","E","V","O","K","E">>,
      sleep |-> <<"S","L","E","E","P">>,
      benchmark |-> <<"B","E","N","C","H","M","A","R","K">>,
      load_file |-> <<"L","O","A","D","_","F","I","L","E">>,
      into |-> <<"I","N","T","O">>,
      outfile |-> <<"O","U","T","F","I","L","E">>,
      dumpfile |-> <<"D","U","M","P","F","I","L","E">>,
      load |-> <<"L","O","A","D">>,
      data |-> <<"D","A","T","A">>,
      infile |-> <<"I","N","F","I","L","E">>,
      select |-> <<"S","E","L","E","C","T">>,
      with |-> <<"W","I","T","H">>,
      limit |-> <<"L","I","M","I","T">> ]

\* the alternatives of each pattern; the patterns are compiled with re.I
\* (variant without TRUNCATE, to test that the properties depend on the list)
DDL_DML_NoTruncate ==
    {W.insert, W.update, W.delete, W.merge, W.replace, W.drop,
     W.alter, W.create, W.grant, W.revoke}
DDL_DML ==
    {W.insert, W.update, W.delete, W.merge, W.replace, W.drop, W.truncate,
     W.alter, W.create, W.grant, W.revoke}
DANGEROUS_FUNCS == {W.sleep, W.benchmark, W.load_file}
OUTFILE_INFILE ==
    {<<W.into, W.outfile>>, <<W.into, W.dumpfile>>, <<W.load, W.data, W.infile>>}
ALLOWED_START == {W.select, W.with}

\* DDL_DML.search(s): \b(...)\b
DDL_DML_search(s) ==
    \E u \in {upper(s)} :
    \E i \in 1..Len(u) :
        wb(u, i) /\ \E k \in DDL_DML : At(u, i, k) /\ wb(u, i + Len(k))

\* DANGEROUS_FUNCS.search(s): \b(...)\s*\(
DANGEROUS_FUNCS_search(s) ==
    \E u \in {upper(s)} :
    \E i \in 1..Len(u) :
        /\ wb(u, i)
        /\ \E k \in DANGEROUS_FUNCS :
              /\ At(u, i, k)
              /\ \E j \in {skip_s(u, i + Len(k))} : j <= Len(u) /\ u[j] = "("

\* the position after the words ws matched at i with \s+ between them, 0 when
\* they do not match
RECURSIVE phrase_end(_, _, _)
phrase_end(u, i, ws) ==
    IF ~At(u, i, ws[1]) THEN 0
    ELSE IF Len(ws) = 1 THEN i + Len(ws[1])
    ELSE LET j == skip_s(u, i + Len(ws[1])) IN
         IF j = i + Len(ws[1]) THEN 0 ELSE phrase_end(u, j, Tail(ws))

\* OUTFILE_INFILE.search(s): \b(INTO\s+OUTFILE|...)\b
OUTFILE_INFILE_search(s) ==
    \E u \in {upper(s)} :
    \E i \in 1..Len(u) :
        /\ wb(u, i)
        /\ \E ws \in OUTFILE_INFILE :
              \E e \in {phrase_end(u, i, ws)} : e # 0 /\ wb(u, e)

\* ALLOWED_START.search(sql): ^\s*(SELECT|WITH)\b
ALLOWED_START_search(s) ==
    \E u \in {upper(s)} :
    \E p \in {skip_s(u, 1)} :
    \E k \in ALLOWED_START : At(u, p, k) /\ wb(u, p + Len(k))

\* limit\s+\d+ matches at position i of u (u in upper case)
limit_at(u, i) ==
    /\ At(u, i, W.limit)
    /\ \E j \in {skip_s(u, i + 5)} : j > i + 5 /\ j <= Len(u) /\ u[j] \in DigitSet

\* HAS_LIMIT.search(s): \blimit\s+\d+
HAS_LIMIT(s) ==
    \E u \in {upper(s)} : \E i \in 1..Len(u) : wb(u, i) /\ limit_at(u, i)

\* SQL_COMMENT.sub("", s), from position i on:
\* (--[^\n]*\n)|(/\*.*?\*/) with re.S, leftmost matches, not overlapping
RECURSIVE strip_from(_, _)
strip_from(s, i) ==
    IF i > Len(s) THEN <<>>
    ELSE IF At(s, i, <<"-","-">>) /\ \E j \in (i + 2)..Len(s) : s[j] = "\n"
    THEN LET nl == CHOOSE j \in (i + 2)..Len(s) :
                      s[j] = "\n" /\ \A k \in (i + 2)..(j - 1) : s[k] # "\n"
         IN strip_from(s, nl + 1)
    ELSE IF At(s, i, <<"/","*">>) /\ \E j \in (i + 2)..Len(s) : At(s, j, <<"*","/">>)
    THEN LET e == CHOOSE j \in (i + 2)..Len(s) :
                     At(s, j, <<"*","/">>)
                     /\ \A k \in (i + 2)..(j - 1) : ~At(s, k, <<"*","/">>)
         IN strip_from(s, e + 2)
    ELSE <<s[i]>> \o strip_from(s, i + 1)

strip_comments(sql) == strip_from(sql, 1)

single_statement_all(sql) == sql

\* SEMICOLON.split(sql)[0]
single_statement(sql) ==
    IF \E i \in 1..Len(sql) : sql[i] = ";"
    THEN SubSeq(sql, 1, (CHOOSE i \in 1..Len(sql) :
                            sql[i] = ";" /\ \A k \in 1..(i - 1) : sql[k] # ";") - 1)
    ELSE sql

\* re.sub(r"(limit\s+)\d+", rf"\g<1>{max_limit}", s, flags=re.I), from i on
RECURSIVE limit_sub(_, _, _)
limit_sub(s, i, max_limit) ==
    IF i > Len(s) THEN <<>>
    ELSE IF limit_at(upper(s), i)
    THEN LET j == skip_s(s, i + 5)
             e == skip_d(s, j)
         IN SubSeq(s, i, j - 1) \o str(max_limit) \o limit_sub(s, e, max_limit)
    ELSE <<s[i]>> \o limit_sub(s, i + 1, max_limit)

\* cap_limit returns (new sql, limit in force)
cap_limit(sql, max_limit) ==
    CHOOSE r \in
      { IF ~HAS_LIMIT(s)
        THEN <<s \o <<" ","L","I","M","I","T"," ">> \o str(max_limit), max_limit>>
        ELSE LET i   == CHOOSE i \in 1..Len(u) :
                           limit_at(u, i) /\ \A k \in 1..(i - 1) : ~limit_at(u, k)
                 j   == skip_s(u, i + 5)
                 cur == int(SubSeq(u, j, skip_d(u, j) - 1))
             IN IF cur > max_limit
                THEN <<limit_sub(s, 1, max_limit), max_limit>>
                ELSE <<s, cur>>
        : <<s, u>> \in {<<x, upper(x)>> : x \in {strip(sql)}} } : TRUE

\* the ValueError raised, "" when the statement passes
ensure_read_only(sql) ==
    IF DDL_DML_search(sql) \/ DANGEROUS_FUNCS_search(sql) \/ OUTFILE_INFILE_search(sql)
    THEN "Only read-only SELECT/CTE is allowed."
    ELSE IF ~ALLOWED_START_search(sql)
    THEN "Query must start with SELECT/WITH."
    ELSE ""

sanitize_sql(sql) == single_statement(strip_comments(sql))

\* the result of a call: the statement returned, or the ValueError raised
Returned(s) == [raised |-> FALSE, sql |-> s, error |-> ""]
Raised(e)   == [raised |-> TRUE, sql |-> <<>>, error |-> e]

\* (CHOOSE over a one-element set binds each intermediate text once)
ensure_safe_sql(sql, default_limit, max_limit) ==
    CHOOSE r \in
        { IF e # "" THEN Raised(e)
          ELSE CHOOSE t \in
                 { IF ~HAS_LIMIT(c)
                   THEN Returned(c \o <<" ","L","I","M","I","T"," ">> \o str(default_limit))
                   ELSE Returned(c) : c \in {cap_limit(s, max_limit)[1]} } : TRUE
          : <<s, e>> \in {<<x, ensure_read_only(x)>> : x \in {sanitize_sql(sql)}} } : TRUE

-----------------------------------------------------------------------------
(* The guard called on its own: ensure_safe_sql(sql, default_limit, max_limit) *)

DefaultLimit == 1000
MaxLimit == 5000
MaxFrags == 3

NotCalled == [raised |-> FALSE, sql |-> <<>>, error |-> "not called"]

\* the texts a caller's SQL is put together from
Heads == {<<>>, <<"S","E","L","E","C","T"," ","a"," ","F","R","O","M"," ","t"," ">>}
KeywordForms ==
    {W.insert, W.update, W.delete, W.merge, W.replace, W.drop, W.truncate,
     W.alter, W.create, W.grant, W.revoke,
     <<"D","r","o","p">>, <<"d","e","l","e","t","e">>}
Frags(kw) ==
    << kw, <<" ">>, <<";">>, <<"-","-">>, <<"\n">>, <<"/","*">>, <<"*","/">>,
       <<"'">>, <<"x">>, <<" ","L","I","M","I","T"," ","9","9","9","9">> >>

RECURSIVE Concat(_)
Concat(ss) == IF ss = <<>> THEN <<>> ELSE Head(ss) \o Concat(Tail(ss))

GuardInputs ==
    { h \o Concat([i \in DOMAIN f |-> Frags(kw)[f[i]]]) :
        h \in Heads, kw \in KeywordForms,
        f \in UNION {[1..n -> 1..10] : n \in 0..MaxFrags} }

GuardIdle ==
    /\ g_in = <<>> /\ g_default = DefaultLimit /\ g_max = MaxLimit
    /\ g_out = NotCalled /\ g_pass = 0

\* a result of the MCP tool: {"ok": ..., "error": {"code": ...}}
McpNotCalled == [ok |-> FALSE, code |-> "not called"]
McpIdle == m_sql = <<>> /\ m_conn = <<>> /\ m_res = McpNotCalled

GuardInit ==
    /\ g_in \in GuardInputs
    /\ g_default = DefaultLimit
    /\ g_max = MaxLimit
    /\ g_out = NotCalled
    /\ g_pass = 0

\* statements with LIMIT clauses: upper and lower case, above and below the
\* caps, inside a subquery, and a string literal that ends in "limit <n>"
LimitFrags ==
    << <<" ","L","I","M","I","T"," ","9","0","0","0">>,
       <<" ","L","I","M","I","T"," ","7">>,
       <<" ","l","i","m","i","t"," "," ","5","0","0","0">>,
       <<" ","=","'","n","o","l","i","m","i","t"," ","9","0","0","0","'">>,
       <<" ","I","N"," ","(","S","E","L","E","C","T"," ","b"," ","L","I","M","I","T"," ","7",")">>,
       <<";">>,
       <<" ","x">> >>
MaxLimitFrags == 3
MaxPasses == 1

LimitInputs ==
    { <<"S","E","L","E","C","T"," ","a"," ","F","R","O","M"," ","t">>
        \o Concat([i \in DOMAIN f |-> LimitFrags[f[i]]]) :
        f \in UNION {[1..n -> DOMAIN LimitFrags] : n \in 0..MaxLimitFrags} }

\* called with the guard's own defaults (1000, 5000), or as db_read_query
\* calls it for limit=1000 (1000, 1000)
LimitInit ==
    /\ g_in \in LimitInputs
    /\ g_default = DefaultLimit
    /\ g_max \in {MaxLimit, DefaultLimit}
    /\ g_out = NotCalled
    /\ g_pass = 0

\* a caller calls ensure_safe_sql(g_in, default_limit=g_default, max_limit=g_max)
GuardCall ==
    /\ g_out = NotCalled
    /\ g_out' = ensure_safe_sql(g_in, g_default, g_max)
    /\ UNCHANGED <<g_in, g_default, g_max, g_pass>>
    /\ UNCHANGED <<mvars, pvars, cvars>>

\* the caller hands the statement the guard returned to the guard again
GuardAgain ==
    /\ g_out # NotCalled /\ ~g_out.raised
    /\ g_pass < MaxPasses
    /\ g_in' = g_out.sql
    /\ g_out' = NotCalled
    /\ g_pass' = g_pass + 1
    /\ UNCHANGED <<g_default, g_max>>
    /\ UNCHANGED <<mvars, pvars, cvars>>

-----------------------------------------------------------------------------
(* app/errors.py, app/db.py: results of the query executor                 *)

\* errors.py: the codes that call for another attempt
RETRYABLE == {"LOCK_TIMEOUT", "DEADLOCK", "LOST_CONNECTION", "TIMEOUT"}

\* a result dict of the executor; error is a code, "None" when the key is
\* absent, or StrError when the value is a plain string instead of a dict
StrError == "<str>"
RawObs(okv, err, data, tables, columns) ==
    [ok |-> okv, error |-> err, data |-> data, tables |-> tables, columns |-> columns]

_result_ok_tables(ts) == RawObs(TRUE, "None", "None", ts, "None")
_result_ok_columns(cs) == RawObs(TRUE, "None", "None", <<>>, cs)
_result_ok_data(d) == RawObs(TRUE, "None", d, <<>>, "None")
_result_err(c) == RawObs(FALSE, c, "None", <<>>, "None")

ok(res) == res.ok /\ res.error = "None"

\* code(res) evaluates (res.get("error") or {}).get("code", "UNKNOWN"): a
\* str has no get, so a string error raises AttributeError
code_raises(res) == res.error = StrError
code(res) == IF res.error = "None" THEN "UNKNOWN" ELSE res.error

Max(a, b) == IF a >= b THEN a ELSE b
Min(x, y) == IF x <= y THEN x ELSE y

\* db_read_query(sql, limit) when the database answers the statement with
\* outcome: rows, an empty result, or an error of the driver.
\* Returns the result and the texts handed to conn.execute.
\* (variant that executes the argument as it is, to test the properties)
db_read_query_raw(sql, limit, outcome) ==
    [res |-> IF outcome \in {"rows", "[]"} THEN _result_ok_data(outcome)
             ELSE _result_err(outcome),
     executed |-> <<sql>>]
db_read_query(sql, limit, outcome) ==
    LET safe == ensure_safe_sql(sql, limit, Max(limit, 1000)) IN
    IF safe.raised
    THEN [res |-> _result_err("UNKNOWN"), executed |-> <<>>]
    ELSE [res |-> IF outcome \in {"rows", "[]"} THEN _result_ok_data(outcome)
                  ELSE _result_err(outcome),
          executed |-> <<safe.sql>>]

-----------------------------------------------------------------------------
(* mcp/src/core/guard.py and the tool run_sql of                           *)
(* mcp/src/tools/database/database_tools.py                                *)

\* the further words of the patterns of this guard
MW ==
    [ show |-> <<"S","H","O","W">>,
      describe |-> <<"D","E","S","C","R","I","B","E">>,
      desc |-> <<"D","E","S","C">>,
      explain |-> <<"E","X","P","L","A","I","N">>,
      exec |-> <<"E","X","E","C">>,
      execute |-> <<"E","X","E","C","U","T","E">>,
      xp_cmdshell |-> <<"X","P","_","C","M","D","S","H","E","L","L">> ]

BLACKLIST_DDL_DML ==
    {W.create, W.drop, W.alter, W.insert, W.update, W.delete, W.truncate, W.replace}
BLACKLIST_DANGEROUS ==
    {<<W.load_file>>, <<W.into, W.outfile>>, <<W.into, W.dumpfile>>, <<MW.exec>>,
     <<MW.execute>>, <<MW.xp_cmdshell>>}
ALLOWED_STARTS == {W.select, MW.show, MW.describe, MW.desc, MW.explain, W.with}
McpMaxLimit == 100

\* BLACKLIST_DDL_DML.search(s)
BLACKLIST_DDL_DML_search(s) ==
    \E u \in {upper(s)} :
    \E i \in 1..Len(u) :
        wb(u, i) /\ \E k \in BLACKLIST_DDL_DML : At(u, i, k) /\ wb(u, i + Len(k))

\* BLACKLIST_DANGEROUS.search(s)
BLACKLIST_DANGEROUS_search(s) ==
    \E u \in {upper(s)} :
    \E i \in 1..Len(u) :
        /\ wb(u, i)
        /\ \E ws \in BLACKLIST_DANGEROUS :
              \E e \in {phrase_end(u, i, ws)} : e # 0 /\ wb(u, e)

\* ALLOWED_STARTS.match(s)
ALLOWED_STARTS_match(s) ==
    \E u \in {upper(s)} :
    \E p \in {skip_s(u, 1)} :
    \E k \in ALLOWED_STARTS : At(u, p, k) /\ wb(u, p + Len(k))

\* MULTI_STATEMENT.search(s): ;\s*\w
MULTI_STATEMENT_search(s) ==
    \E i \in 1..Len(s) :
        /\ s[i] = ";"
        /\ \E j \in {skip_s(s, i + 1)} : j <= Len(s) /\ s[j] \in WordSet

\* first position >= i that holds a newline, Len(s) + 1 when there is none
RECURSIVE line_end(_, _)
line_end(s, i) == IF i <= Len(s) /\ s[i] # "\n" THEN line_end(s, i + 1) ELSE i

\* re.compile(mark + r'.*$', re.MULTILINE).sub('', s), from position i on
RECURSIVE strip_line_from(_, _, _)
strip_line_from(s, i, mark) ==
    IF i > Len(s) THEN <<>>
    ELSE IF At(s, i, mark) THEN strip_line_from(s, line_end(s, i), mark)
    ELSE <<s[i]>> \o strip_line_from(s, i + 1, mark)

\* re.compile(r'/\*.*?\*/', re.DOTALL).sub('', s), from position i on
RECURSIVE strip_block_from(_, _)
strip_block_from(s, i) ==
    IF i > Len(s) THEN <<>>
    ELSE IF At(s, i, <<"/","*">>) /\ \E j \in (i + 2)..Len(s) : At(s, j, <<"*","/">>)
    THEN LET e == CHOOSE j \in (i + 2)..Len(s) :
                     At(s, j, <<"*","/">>)
                     /\ \A k \in (i + 2)..(j - 1) : ~At(s, k, <<"*","/">>)
         IN strip_block_from(s, e + 2)
    ELSE <<s[i]>> \o strip_block_from(s, i + 1)

mcp_strip_comments(sql) ==
    strip(strip_line_from(
              strip_block_from(strip_line_from(sql, 1, <<"-","-">>), 1), 1, <<"#">>))

mcp_single_statement(sql) ==
    IF MULTI_STATEMENT_search(sql) THEN strip(single_statement(sql)) ELSE sql

\* LIMIT_PATTERN matches at position i of u (u in upper case): \bLIMIT\s+(\d+)\b
LIMIT_PATTERN_at(u, i) ==
    /\ ~WordCharAt(u, i - 1)
    /\ At(u, i, W.limit)
    /\ \E j \in {skip_s(u, i + 5)} :
          /\ j > i + 5 /\ j <= Len(u) /\ u[j] \in DigitSet
          /\ ~WordCharAt(u, skip_d(u, j))

LIMIT_PATTERN_search(s) ==
    \E u \in {upper(s)} : \E i \in 1..Len(u) : LIMIT_PATTERN_at(u, i)

\* LIMIT_PATTERN.sub(replace_limit, s), from position i on; u is s in upper case
RECURSIVE replace_limit_from(_, _, _, _)
replace_limit_from(s, u, i, max_limit) ==
    IF i > Len(s) THEN <<>>
    ELSE IF LIMIT_PATTERN_at(u, i)
    THEN LET j == skip_s(u, i + 5)
             e == skip_d(u, j)
         IN <<"L","I","M","I","T"," ">>
            \o str(Min(int(SubSeq(u, j, e - 1)), max_limit))
            \o replace_limit_from(s, u, e, max_limit)
    ELSE <<s[i]>> \o replace_limit_from(s, u, i + 1, max_limit)

mcp_cap_limit(sql, max_limit) ==
    IF ~LIMIT_PATTERN_search(sql) /\ At(upper(strip(sql)), 1, W.select)
    THEN replace_limit_from(sql, upper(sql), 1, max_limit)
         \o <<" ","L","I","M","I","T"," ">> \o str(max_limit)
    ELSE replace_limit_from(sql, upper(sql), 1, max_limit)

\* the ValueError raised, "" when the statement passes
mcp_ensure_read_only(sql) ==
    IF BLACKLIST_DDL_DML_search(sql) THEN "DDL/DML forbidden"
    ELSE IF BLACKLIST_DANGEROUS_search(sql) THEN "dangerous function forbidden"
    ELSE IF ~ALLOWED_STARTS_match(sql) THEN "only SELECT/SHOW/DESCRIBE/EXPLAIN allowed"
    ELSE ""

mcp_sanitize_sql(sql) ==
    mcp_cap_limit(mcp_single_statement(mcp_strip_comments(sql)), McpMaxLimit)

mcp_ensure_safe_sql(sql) ==
    \* the \E binds the sanitized text once
    CHOOSE r \in {IF mcp_ensure_read_only(t) # "" THEN Raised(mcp_ensure_read_only(t))
                  ELSE Returned(t) : t \in {mcp_sanitize_sql(sql)}} : TRUE

McpSuccess == [ok |-> TRUE, code |-> "None"]
McpError(c) == [ok |-> FALSE, code |-> c]

\* run_sql(sql) when the database answers the statement with db: rows or an
\* error of the driver. Returns the result and the texts handed to conn.execute.
run_sql(sql, db) ==
    LET safe == mcp_ensure_safe_sql(sql) IN
    IF safe.raised THEN [res |-> McpError("DATABASE_ERROR"), executed |-> <<>>]
    ELSE IF safe.sql = <<>> THEN [res |-> McpError("UNSAFE_SQL"), executed |-> <<>>]
    ELSE [res |-> IF db = "rows" THEN McpSuccess ELSE McpError(db),
          executed |-> <<sql>>]

MaxMcpFrags == 3

\* the texts a client's sql argument is put together from
McpHeads == {<<>>, <<"S","E","L","E","C","T"," ","1">>}
McpFrags ==
    << <<";">>, <<" ">>, <<"D","R","O","P"," ","T","A","B","L","E"," ","x">>,
       <<"S","H","O","W"," ","T","A","B","L","E","S">>, <<"-","-">>, <<"\n">>,
       <<"#">>, <<"/","*">>, <<"*","/">>, <<" ","l","i","m","i","t"," "," ","5","0","0">> >>

McpInputs ==
    { h \o Concat([i \in DOMAIN f |-> McpFrags[f[i]]]) :
        h \in McpHeads, f \in UNION {[1..n -> 1..10] : n \in 0..MaxMcpFrags} }

McpInit == m_sql \in McpInputs /\ m_conn = <<>> /\ m_res = McpNotCalled

\* a client calls the tool run_sql(m_sql)
McpRunSql ==
    /\ m_res = McpNotCalled
    /\ \E db \in {"rows", "SQL_ERROR"} :
       \E r \in {run_sql(m_sql, db)} :
          /\ m_conn' = r.executed
          /\ m_res' = r.res
    /\ UNCHANGED m_sql
    /\ UNCHANGED <<gvars, pvars, cvars>>

-----------------------------------------------------------------------------
(* app/planner.py: the session state S and the helpers of decide and act   *)

Lookback == 6
KeepMin == 6
TopK == 3
ReadLimit == 1000
SampleLimit == 5
RecursionLimit == 30

\* the tables of the database, as db_list_tables returns them (sorted)
DbTables == <<"items", "logs", "orders", "users">>
TableText(t) ==
    IF t = "orders" THEN <<"o","r","d","e","r","s">>
    ELSE IF t = "users" THEN <<"u","s","e","r","s">>
    ELSE IF t = "items" THEN <<"i","t","e","m","s">>
    ELSE <<"l","o","g","s">>

\* sorted(set(xs)) for table names
SortedSet(xs) == SelectSeq(DbTables, LAMBDA t : t \in Range(xs))

\* a question is kept as its words: `k in text` is a test on the words.
\* The Chinese keys of _is_count_question are written in pinyin.
CountKeys == {"duoshao", "youjige", "shuliang", "zongshu", "count",
              "jishu", "jiren", "jixiang", "jitiao", "jige"}
_is_count_question(text) == \E i \in 1..Len(text) : text[i] \in CountKeys

NoArgs == [table |-> "", sql |-> <<>>]
TableArg(t) == [table |-> t, sql |-> <<>>]
SqlArg(q) == [table |-> "", sql |-> q]

\* Step.observation: {} until act has run
NoObs == [set |-> FALSE, ok |-> FALSE, preview |-> "None", error |-> "None",
          tables |-> <<>>, columns |-> "None"]
Step(thought, action, args) ==
    [thought |-> thought, action |-> action, args |-> args, observation |-> NoObs]

NoAnswer == [set |-> FALSE, ok |-> FALSE, reason |-> "None", final |-> "None",
             evidence |-> "None", trace |-> <<>>]
NoDecision == [thought |-> <<>>, action |-> "None", args |-> NoArgs]

Last(s) == s[Len(s)]

\* s[-n:] for n > 0
LastN(s, n) == SubSeq(s, Max(1, Len(s) - n + 1), Len(s))

\* truth value of a preview: None and [] are falsy
Truthy(preview) == preview = "rows"

\* (variant that looks at the newest step only, to test the properties)
_has_recent_sql_evidence_newest(st, lookback) ==
    /\ st # <<>>
    /\ Last(st).action = "run_sql"
    /\ Last(st).observation.ok
    /\ Truthy(Last(st).observation.preview)
_has_recent_sql_evidence(st, lookback) ==
    /\ st # <<>>
    /\ \E i \in DOMAIN LastN(st, lookback) :
          LET s == LastN(st, lookback)[i] IN
          /\ s.action = "run_sql"
          /\ s.observation.ok
          /\ Truthy(s.observation.preview)

\* the tables of known_schemas in insertion order (dict keys)
SchemaKeys(ks) == [i \in 1..Len(ks) |-> ks[i].table]

_infer_candidate_tables_known(q, known, ks, top_k) ==
    SubSeq(known, 1, Min(top_k, Len(known)))
_infer_candidate_tables(q, known, ks, top_k) ==
    LET pri1 == SelectSeq(known, LAMBDA t : t # "" /\ t \in Range(q))
        pri2 == pri1 \o SelectSeq(SchemaKeys(ks),
                          LAMBDA t : t \notin Range(pri1) /\ t \in Range(known))
        pri3 == pri2 \o SelectSeq(known, LAMBDA t : t \notin Range(pri2))
    IN SubSeq(pri3, 1, Min(top_k, Len(pri3)))

\* the character ` (the lexer of TLA+ has no literal for it)
Backtick == "<backtick>"

count_sql(t) ==
    <<"S","E","L","E","C","T"," ","C","O","U","N","T","(","*",")"," ","A","S"," ",
      "c","n","t"," ","F","R","O","M"," ",Backtick>> \o TableText(t) \o <<Backtick>>
sample_sql(t, n) ==
    <<"S","E","L","E","C","T"," ","*"," ","F","R","O","M"," ",Backtick>> \o TableText(t)
    \o <<Backtick," ","L","I","M","I","T"," ">> \o str(n)

\* the rewrite of a proposed finish without evidence (decide, lines 170-205)
\* (variant that rewrites to sample_rows, to test the properties)
rewrite_finish_sample(q, known, ks, parsed) ==
    [thought |-> Append(parsed.thought, "[guard] sample_rows"),
     action |-> "sample_rows", args |-> TableArg("orders")]
rewrite_finish(q, known, ks, parsed) ==
    IF known = <<>>
    THEN [thought |-> Append(parsed.thought, "[guard] list_tables"),
          action |-> "list_tables", args |-> NoArgs]
    ELSE LET cands == _infer_candidate_tables(q, known, ks, TopK)
             lacking == SelectSeq(cands, LAMBDA t : t \notin Range(SchemaKeys(ks)))
         IN IF lacking # <<>>
            THEN [thought |-> Append(parsed.thought, "[guard] describe_table"),
                  action |-> "describe_table", args |-> TableArg(lacking[1])]
            ELSE LET target == IF cands # <<>> THEN cands[1] ELSE known[1] IN
                 IF target = ""
                 THEN [thought |-> Append(parsed.thought, "[guard] list_tables"),
                       action |-> "list_tables", args |-> NoArgs]
                 ELSE IF _is_count_question(q)
                 THEN [thought |-> Append(parsed.thought, "[guard] run_sql(COUNT)"),
                       action |-> "run_sql", args |-> SqlArg(count_sql(target))]
                 ELSE [thought |-> Append(parsed.thought, "[guard] run_sql(sample)"),
                       action |-> "run_sql", args |-> SqlArg(sample_sql(target, 5))]

\* decide, lines 167-208: the evidence guard on the validated decision
\* (variant without the guard, to test the properties)
evidence_guard_off(q, st, known, ks, parsed) == parsed
evidence_guard(q, st, known, ks, parsed) ==
    IF parsed.action = "finish" /\ ~_has_recent_sql_evidence(st, Lookback)
    THEN rewrite_finish(q, known, ks, parsed)
    ELSE parsed

\* decide, lines 154-156: the sliding window
window(st, ms) ==
    IF Len(st) > ms - 2 THEN LastN(st, Max(ms \div 2, KeepMin)) ELSE st

\* decide, line 158: the budget check
\* (variant without the budget, to test the properties)
budget_exceeded_never(st, ms) == FALSE
budget_exceeded(st, ms) == Len(st) >= ms

BudgetAnswer(st) ==
    [set |-> TRUE, ok |-> FALSE, reason |-> "step_budget_exceeded",
     final |-> "None", evidence |-> "None", trace |-> st]

\* the decision-maker's validated decisions and the executor's answers
Questions == {<<"show", "orders">>, <<"count", "users">>}
SqlSelect == <<"S","E","L","E","C","T"," ","1">>
SqlDrop == <<"D","R","O","P"," ","T","A","B","L","E"," ","x">>
SqlTwo == <<"S","E","L","E","C","T"," ","1",";"," ","D","R","O","P"," ","T","A","B","L","E"," ","x">>

\* schemas.py: DecideOut and the action names it admits
ActionName == {"list_tables", "describe_table", "sample_rows", "run_sql", "finish"}
DecideOut(thought, action, args) == [thought |-> thought, action |-> action, args |-> args]
Decision(action, args) == DecideOut(<<"llm">>, action, args)

\* a value parsed from JSON: an object, of which the keys thought, action and
\* args matter, each missing or holding a value of some JSON type (t), or a
\* value of another kind (array, string, number, null)
Field(t, v) == [t |-> t, v |-> v]
JsonObject(thought, action, args) ==
    [kind |-> "object", thought |-> thought, action |-> action, args |-> args]
JsonOther(kind) ==
    [kind |-> kind, thought |-> Field("missing", <<>>), action |-> Field("missing", ""),
     args |-> Field("missing", NoArgs)]
RawOf(d) == JsonObject(Field("str", d.thought), Field("str", d.action), Field("dict", d.args))

\* the content of the model's reply: the text of a JSON value ("json"), prose
\* around the text of a JSON object ("wrapped"), or neither ("garbage")
Content(form, value) == [form |-> form, value |-> value]

\* planner_decide.py: json.loads of the text, else of its first "{" to its
\* last "}", else the stand-in object
_safe_json_loads(txt) ==
    IF txt.form \in {"json", "wrapped"} THEN txt.value
    ELSE JsonObject(Field("str", <<"parse failed">>), Field("str", "list_tables"),
                    Field("dict", NoArgs))

\* schemas.py: DecideOut(**obj), with the fallback on ValidationError only;
\* ** on a value that is no mapping raises TypeError
validate_decide(obj) ==
    IF obj.kind # "object" THEN [raised |-> TRUE, decision |-> NoDecision]
    ELSE IF /\ obj.action.t = "str" /\ obj.action.v \in ActionName
            /\ obj.thought.t \in {"str", "missing"}
            /\ obj.args.t \in {"dict", "missing"}
    THEN [raised |-> FALSE,
          decision |-> DecideOut(IF obj.thought.t = "str" THEN obj.thought.v ELSE <<>>,
                                 obj.action.v,
                                 IF obj.args.t = "dict" THEN obj.args.v ELSE NoArgs)]
    ELSE [raised |-> FALSE,
          decision |-> DecideOut(<<"fallback", "detail">>, "list_tables", NoArgs)]

\* replies that are well-formed decisions
Replies(ds) == {Content("json", RawOf(d)) : d \in ds}
Proposals ==
    {Decision("list_tables", NoArgs), Decision("describe_table", TableArg("orders")),
     Decision("sample_rows", TableArg("orders")), Decision("run_sql", SqlArg(SqlTwo)),
     Decision("run_sql", SqlArg(SqlDrop)), Decision("finish", NoArgs)}
LongProposals ==
    {Decision("list_tables", NoArgs), Decision("run_sql", SqlArg(SqlSelect)),
     Decision("finish", NoArgs)}
\* replies of every shape: decisions, an action outside ActionName, missing
\* keys, values of the wrong type, JSON values that are no object, prose
RawReplies ==
    Replies({Decision("list_tables", NoArgs), Decision("run_sql", SqlArg(SqlSelect)),
             Decision("finish", NoArgs)})
    \cup {Content("json", JsonObject(Field("str", <<"llm">>), a, Field("dict", NoArgs))) :
            a \in {Field("str", "delete_everything"), Field("missing", ""),
                   Field("int", "")}}
    \cup {Content("json", JsonObject(Field("int", <<>>), Field("str", "finish"),
                                     Field("dict", NoArgs))),
          Content("json", JsonObject(Field("str", <<"llm">>), Field("str", "run_sql"),
                                     Field("str", NoArgs))),
          Content("json", JsonObject(Field("missing", <<>>), Field("str", "finish"),
                                     Field("missing", NoArgs))),
          Content("wrapped", RawOf(Decision("list_tables", NoArgs))),
          Content("garbage", JsonOther("null"))}
    \cup {Content("json", JsonOther(k)) : k \in {"array", "string", "number", "null"}}

RichEnv == [contents |-> Replies(Proposals),
            query |-> {"rows", "[]", "SQL_SYNTAX_ERROR", "LOST_CONNECTION"},
            meta |-> {"ok", "fail"}]
LongEnv == [contents |-> Replies(LongProposals), query |-> {"rows"}, meta |-> {"ok"}]
RawEnv == [contents |-> RawReplies, query |-> {"rows"}, meta |-> {"ok"}]
\* the decision-maker answers finish at every decide
FinishEnv == [contents |-> Replies({Decision("finish", NoArgs)}),
              query |-> {"rows"}, meta |-> {"ok"}]
\* the decision-maker answers finish or asks for the schema of a table
RewriteEnv == [contents |-> Replies({Decision("finish", NoArgs),
                                     Decision("describe_table", TableArg("orders")),
                                     Decision("describe_table", TableArg("logs"))}),
               query |-> {"rows"}, meta |-> {"ok", "altered"}]

\* the executor's answers to an action; "altered" is a describe_table of a
\* table whose columns another client of the database has changed
Outcomes(E, action) ==
    IF action \in {"run_sql", "sample_rows"} THEN E.query
    ELSE IF action = "describe_table" THEN E.meta
    ELSE IF action = "list_tables" THEN E.meta \ {"altered"}
    ELSE {"-"}

\* run_action, with the executor's answer o; the HTTP routes of server.py
\* hand the call to db.py
run_action(action, args, o) ==
    IF action = "list_tables"
    THEN [res |-> IF o = "ok" THEN _result_ok_tables(DbTables)
                  ELSE _result_err("LOST_CONNECTION"),
          executed |-> <<>>]
    ELSE IF action = "describe_table"
    THEN [res |-> IF o = "ok" THEN _result_ok_columns("cols")
                  ELSE IF o = "altered" THEN _result_ok_columns("cols2")
                  ELSE _result_err("UNKNOWN_TABLE"),
          executed |-> <<>>]
    ELSE IF action = "sample_rows"
    THEN db_read_query(sample_sql(args.table, SampleLimit), SampleLimit, o)
    ELSE IF action = "run_sql"
    THEN db_read_query(args.sql, ReadLimit, o)
    ELSE [res |-> RawObs(FALSE, StrError, "None", <<>>, "None"), executed |-> <<>>]

summarize_obs(action, obs) ==
    IF action = "list_tables"
    THEN [set |-> TRUE, ok |-> ok(obs), preview |-> "None", error |-> obs.error,
          tables |-> obs.tables, columns |-> "None"]
    ELSE IF action = "describe_table"
    THEN [set |-> TRUE, ok |-> ok(obs), preview |-> "None", error |-> obs.error,
          tables |-> <<>>, columns |-> obs.columns]
    ELSE IF action \in {"sample_rows", "run_sql"}
    THEN [set |-> TRUE, ok |-> ok(obs), preview |-> obs.data, error |-> obs.error,
          tables |-> <<>>, columns |-> "None"]
    ELSE [set |-> TRUE, ok |-> obs.ok, preview |-> "None", error |-> obs.error,
          tables |-> obs.tables, columns |-> obs.columns]

\* _latest_evidence: the latest run_sql/sample_rows step whose preview is not None
_latest_evidence(st) ==
    LET hits == {i \in 1..Len(st) :
                    /\ st[i].action \in {"run_sql", "sample_rows"}
                    /\ st[i].observation.preview # "None"}
    IN IF hits = {} THEN "{}"
       ELSE LET i == CHOOSE i \in hits : \A j \in hits : j <= i
            IN [preview |-> st[i].observation.preview,
                sql |-> st[i].args.sql, table |-> st[i].args.table]

\* known_schemas[tbl] = obs
put_schema(ks, tbl, obs) ==
    IF \E i \in 1..Len(ks) : ks[i].table = tbl
    THEN [i \in 1..Len(ks) |->
            IF ks[i].table = tbl THEN [table |-> tbl, schema |-> obs.columns] ELSE ks[i]]
    ELSE Append(ks, [table |-> tbl, schema |-> obs.columns])

-----------------------------------------------------------------------------
(* app/planner.py: the nodes of the graph                                  *)

\* an exception leaves graph.invoke: the node's writes are not committed
Raise(e) ==
    /\ pc' = "raised"
    /\ exc' = e
    /\ UNCHANGED <<question, steps, known_tables, known_schemas, last_error, done,
                   answer, max_steps, supersteps, proposed, run>>

DecideOn(E) ==
    /\ pc = "decide"
    /\ supersteps < RecursionLimit
    /\ \E kept \in {window(steps, max_steps)} :
       IF budget_exceeded(kept, max_steps)
       THEN /\ steps' = kept
            /\ done' = TRUE
            /\ answer' = BudgetAnswer(kept)
            /\ proposed' = NoDecision
            /\ run' = run
            /\ pc' = "act"
            /\ supersteps' = supersteps + 1
            /\ exc' = exc
       ELSE \E c \in E.contents :
            \E raw \in {_safe_json_loads(c)} :
            \E v \in {validate_decide(raw)} :
               IF v.raised
               THEN /\ pc' = "raised"
                    /\ exc' = "TypeError"
                    /\ run' = [run EXCEPT !.raw = raw]
                    /\ UNCHANGED <<steps, done, answer, proposed, supersteps>>
               ELSE \E parsed \in {evidence_guard(question, kept, known_tables,
                                                  known_schemas, v.decision)} :
                    /\ steps' = Append(kept, Step(parsed.thought, parsed.action,
                                                  parsed.args))
                    /\ done' = FALSE
                    /\ answer' = IF done THEN NoAnswer ELSE answer
                    /\ proposed' = v.decision
                    /\ run' = [run EXCEPT
                                  !.nofinish = @ /\ v.decision.action # "finish",
                                  !.decisions = @ + 1,
                                  !.raw = raw]
                    /\ pc' = "act"
                    /\ supersteps' = supersteps + 1
                    /\ exc' = exc
    /\ conn' = <<>>
    /\ UNCHANGED <<question, known_tables, known_schemas, last_error, max_steps>>

ActOn(E) ==
    /\ pc = "act"
    /\ supersteps < RecursionLimit
    /\ IF steps = <<>>
       THEN Raise("IndexError") /\ conn' = <<>>
       ELSE \E o \in Outcomes(E, Last(steps).action) :
            \E r \in {run_action(Last(steps).action, Last(steps).args, o)} :
            LET step == Last(steps)
                obs  == r.res
            IN /\ conn' = r.executed
               /\ IF ~ok(obs) /\ code_raises(obs)
                  THEN Raise("AttributeError")
                  ELSE \E st2 \in {[steps EXCEPT
                                       ![Len(steps)].observation =
                                           summarize_obs(step.action, obs)]} :
                       /\ steps' = st2
                       /\ known_tables' =
                             IF step.action = "list_tables" /\ ok(obs)
                             THEN SortedSet(known_tables \o obs.tables)
                             ELSE known_tables
                       /\ known_schemas' =
                             IF step.action = "describe_table" /\ ok(obs)
                             THEN put_schema(known_schemas, step.args.table, obs)
                             ELSE known_schemas
                       /\ done' = (done \/ step.action = "finish")
                       /\ answer' =
                             IF step.action = "finish"
                             THEN [set |-> TRUE, ok |-> TRUE, reason |-> "None",
                                   final |-> obs.data,
                                   evidence |-> _latest_evidence(st2),
                                   trace |-> <<>>]
                             ELSE answer
                       /\ last_error' = IF ~ok(obs) THEN code(obs) ELSE last_error
                       /\ pc' = "judge"
                       /\ supersteps' = supersteps + 1
                       /\ UNCHANGED <<question, max_steps, exc, proposed, run>>

\* judge, and the conditional edge of the graph after it
Judge ==
    /\ pc = "judge"
    /\ supersteps < RecursionLimit
    /\ IF done /\ steps # <<>> /\ Last(steps).action = "finish"
             /\ ~_has_recent_sql_evidence(steps, Lookback)
       THEN /\ done' = FALSE
            /\ last_error' = "premature_finish"
            /\ pc' = "decide"
       ELSE /\ pc' = IF done THEN "END" ELSE "decide"
            /\ UNCHANGED <<done, last_error>>
    /\ supersteps' = supersteps + 1
    /\ UNCHANGED <<question, steps, known_tables, known_schemas, answer, max_steps,
                   exc, proposed, conn, run>>
    /\ UNCHANGED <<gvars, mvars, cvars>>

\* graph.invoke(..., "recursion_limit": 30): the graph has not reached END
GraphRecursion ==
    /\ pc \in {"decide", "act", "judge"}
    /\ supersteps >= RecursionLimit
    /\ Raise("GraphRecursionError")
    /\ conn' = conn
    /\ UNCHANGED <<gvars, mvars, cvars>>

\* plan: the next question on the same thread_id; MemorySaver hands back the
\* thread's state and the input overrides question, done and answer
NewTurn ==
    /\ pc \in {"END", "raised"}
    /\ \E q \in Questions : question' = q
    /\ done' = FALSE
    /\ answer' = NoAnswer
    /\ pc' = "decide"
    /\ exc' = ""
    /\ supersteps' = 0
    /\ proposed' = NoDecision
    /\ conn' = <<>>
    /\ run' = [fresh |-> steps = <<>>, nofinish |-> TRUE, decisions |-> 0,
               raw |-> JsonOther("none")]
    /\ UNCHANGED <<steps, known_tables, known_schemas, last_error, max_steps>>
    /\ UNCHANGED <<gvars, mvars, cvars>>

\* the nodes as steps of the whole system
Decide == DecideOn(RichEnv) /\ UNCHANGED <<gvars, mvars, cvars>>
Act == ActOn(RichEnv) /\ UNCHANGED <<gvars, mvars, cvars>>
DecideLong == DecideOn(LongEnv) /\ UNCHANGED <<gvars, mvars, cvars>>
ActLong == ActOn(LongEnv) /\ UNCHANGED <<gvars, mvars, cvars>>
DecideRaw == DecideOn(RawEnv) /\ UNCHANGED <<gvars, mvars, cvars>>
DecideFinish == DecideOn(FinishEnv) /\ UNCHANGED <<gvars, mvars, cvars>>
DecideRewrite == DecideOn(RewriteEnv) /\ UNCHANGED <<gvars, mvars, cvars>>
ActRewrite == ActOn(RewriteEnv) /\ UNCHANGED <<gvars, mvars, cvars>>

\* a session state S(question=q, max_steps=ms) handed to the graph
PlannerInit(budgets) ==
    /\ question \in Questions
    /\ steps = <<>>
    /\ known_tables = <<>>
    /\ known_schemas = <<>>
    /\ last_error = "None"
    /\ done = FALSE
    /\ answer = NoAnswer
    /\ max_steps \in budgets
    /\ pc = "decide"
    /\ exc = ""
    /\ supersteps = 0
    /\ proposed = NoDecision
    /\ conn = <<>>
    /\ run = [fresh |-> TRUE, nofinish |-> TRUE, decisions |-> 0,
                           raw |-> JsonOther("none")]

PlannerIdle ==
    /\ question = <<>> /\ steps = <<>> /\ known_tables = <<>> /\ known_schemas = <<>>
    /\ last_error = "None" /\ done = FALSE /\ answer = NoAnswer /\ max_steps = 0
    /\ pc = "idle" /\ exc = "" /\ supersteps = 0 /\ proposed = NoDecision
    /\ conn = <<>> /\ run = [fresh |-> TRUE, nofinish |-> TRUE, decisions |-> 0,
                           raw |-> JsonOther("none")]

\* mcp/src/core/schemas.py, AgentState: the fields the coordinator reads and
\* writes; answer is None or {"ok": ..., "data": ...}
NoCoAnswer == [set |-> FALSE, ok |-> FALSE, data |-> "None"]
AgentState(q, ms) ==
    [question |-> q, steps |-> <<>>, done |-> FALSE, answer |-> NoCoAnswer,
     max_steps |-> ms, messages |-> <<>>]
NoCall == [user_input |-> <<>>, max_steps |-> 0, continue_conversation |-> FALSE,
           n |-> 0, loaded |-> FALSE, loaded_done |-> FALSE, resumes |-> FALSE,
           results |-> <<>>, starts |-> <<>>, ended |-> "None", broke |-> "None"]
CoordIdle ==
    /\ state = AgentState(<<>>, 0) /\ messages = <<>> /\ step_count = 0
    /\ events = <<>> /\ saved = [exists |-> FALSE, state |-> AgentState(<<>>, 0)]
    /\ call = NoCall /\ c_pc = "idle"

MaxBudget == 2
MaxLongBudget == 9
MaxRewriteBudget == 5

\* the planner with every decision and every executor answer
Init == GuardIdle /\ McpIdle /\ PlannerInit(1..MaxBudget) /\ CoordIdle
Next == Decide \/ Act \/ Judge \/ NewTurn
Spec == Init /\ [][Next]_vars

\* long runs of the planner: every executor call succeeds with rows
InitLong == GuardIdle /\ McpIdle /\ PlannerInit(1..MaxLongBudget) /\ CoordIdle
NextLong == DecideLong \/ ActLong \/ Judge \/ GraphRecursion
SpecLong == InitLong /\ [][NextLong]_vars

\* the planner with replies of every shape: every executor call succeeds
NextRaw == DecideRaw \/ ActLong \/ Judge \/ NewTurn
SpecRaw == Init /\ [][NextRaw]_vars

\* one run of the graph in which every decision is finish and every executor
\* call succeeds; langgraph runs the next node of the graph until the graph
\* ends or a node raises
NextFinish == DecideFinish \/ ActLong \/ Judge
SpecFinish == InitLong /\ [][NextFinish]_vars /\ WF_vars(NextFinish)

\* the planner when the decisions are finish and describe_table
NextRewrite == DecideRewrite \/ ActRewrite \/ Judge \/ NewTurn
InitRewrite == GuardIdle /\ McpIdle /\ PlannerInit(1..MaxRewriteBudget) /\ CoordIdle
SpecRewrite == InitRewrite /\ [][NextRewrite]_vars

\* the guard on its own
InitGuard == GuardInit /\ McpIdle /\ PlannerIdle /\ CoordIdle
NextGuard == GuardCall
SpecGuard == InitGuard /\ [][NextGuard]_vars

\* the guard on statements with LIMIT clauses, and on its own output
NextLimit == GuardCall \/ GuardAgain
InitLimit == LimitInit /\ McpIdle /\ PlannerIdle /\ CoordIdle
SpecLimit == InitLimit /\ [][NextLimit]_vars

\* the MCP tool run_sql on its own
InitMcp == GuardIdle /\ McpInit /\ PlannerIdle /\ CoordIdle
NextMcp == McpRunSql
SpecMcp == InitMcp /\ [][NextMcp]_vars

-----------------------------------------------------------------------------
(* Properties                                                              *)

\* s[:-1]
Front(s) == SubSeq(s, 1, Len(s) - 1)

\* decide has just appended the step for the decision it was handed; the
\* trace it examined is Front(steps)
Decided == pc = "act" /\ proposed # NoDecision

\* the step counts as evidence: one of the actions, ok=true, non-empty preview
IsEvidence(s, actions) ==
    s.action \in actions /\ s.observation.ok /\ Truthy(s.observation.preview)

\* the appended step is the proposed decision, unchanged
PassedUnchanged == Last(steps) = Step(proposed.thought, proposed.action, proposed.args)

\* evidence as section 4.4 of the specification defines it: a run_sql or
\* sample_rows step with ok=true and a non-empty preview within the last
\* lookback steps
HasEvidence(st, lookback) ==
    \E i \in DOMAIN LastN(st, lookback) :
        IsEvidence(LastN(st, lookback)[i], {"run_sql", "sample_rows"})

HasRunSql(st) == \E i \in 1..Len(st) : st[i].action = "run_sql"
LastRunSqlAt(st) ==
    CHOOSE i \in 1..Len(st) :
        st[i].action = "run_sql" /\ \A j \in (i + 1)..Len(st) : st[j].action # "run_sql"
LastRunSqlGood(st) == HasRunSql(st) /\ IsEvidence(st[LastRunSqlAt(st)], {"run_sql"})

C2_executed_sql_is_guard_output ==
    (pc = "judge" /\ steps # <<>> /\ Last(steps).action = "run_sql") =>
        \E g \in {ensure_safe_sql(Last(steps).args.sql, ReadLimit, Max(ReadLimit, 1000))} :
            conn = IF g.raised THEN <<>> ELSE <<g.sql>>

\* act ran a run_sql step whose executed text differs from the sql argument
C2_witness ==
    /\ pc = "judge"
    /\ steps # <<>>
    /\ Last(steps).action = "run_sql"
    /\ Last(steps).args.sql = SqlTwo
    /\ Len(conn) = 1
    /\ conn[1] # Last(steps).args.sql

\* C3: once the MCP tool run_sql has returned, no text handed to the database
\* connection holds, outside comments, a second statement after a semicolon.
C3_mcp_second_statement_never_executed ==
    m_res # McpNotCalled =>
        \A i \in 1..Len(m_conn) : ~MULTI_STATEMENT_search(mcp_strip_comments(m_conn[i]))

ClaimedKeywords ==
    {W.drop, W.delete, W.insert, W.update, W.alter, W.create, W.truncate,
     W.grant, W.revoke}

\* the positions of s that lie outside '...' literals
OutsideLiteral(s, i) == Cardinality({j \in 1..(i - 1) : s[j] = "'"}) % 2 = 0

\* s holds one of the claimed keywords as a whole word, in any letter case
HasKeyword(s, outside_only) ==
    \E u \in {upper(s)} :
    \E i \in 1..Len(u), k \in ClaimedKeywords :
        /\ wb(u, i) /\ At(u, i, k) /\ wb(u, i + Len(k))
        /\ outside_only => OutsideLiteral(s, i)

\* C4 (as stated): every text that holds DROP, DELETE, INSERT, UPDATE, ALTER,
\* CREATE, TRUNCATE, GRANT or REVOKE as a whole word outside string literals
\* makes ensure_safe_sql raise.
C4_keyword_anywhere_rejected ==
    (g_out # NotCalled /\ HasKeyword(g_in, TRUE)) => g_out.raised

\* C4 (amended): every text whose first statement, after the comments are
\* removed, holds one of these keywords as a whole word, inside or outside
\* string literals and in any letter case, makes ensure_safe_sql raise.
C4_keyword_in_statement_rejected ==
    (g_out # NotCalled /\ HasKeyword(sanitize_sql(g_in), FALSE)) => g_out.raised

\* a statement that starts with SELECT and holds a keyword was rejected
C4_witness ==
    /\ g_out # NotCalled
    /\ HasKeyword(sanitize_sql(g_in), FALSE)
    /\ ALLOWED_START_search(sanitize_sql(g_in))
    /\ g_out.raised

\* C5: a run that started on an empty trace and in which no finish was
\* proposed ends, when it ends, at END with done=true, answer.reason
\* step_budget_exceeded and exactly max_steps decisions taken.
C5_budget_ends_run ==
    (run.fresh /\ run.nofinish /\ pc \in {"END", "raised"}) =>
        /\ pc = "END"
        /\ done
        /\ answer.reason = "step_budget_exceeded"
        /\ run.decisions = max_steps

\* C6: the number of steps in the session state never exceeds max_steps.
C6_steps_within_budget == Len(steps) <= max_steps

\* the trace is full, with a budget above the window's minimum, after an act
C6_witness == Len(steps) = max_steps /\ max_steps > KeepMin /\ pc = "judge"

\* C7: after decide has appended an accepted finish step, act does not raise.
C7_finish_act_completes ==
    (steps # <<>> /\ Last(steps).action = "finish" /\ proposed.action = "finish")
        => pc # "raised"

\* C8 (as stated): when the last run_sql step of the trace has ok=true and a
\* non-empty preview, a proposed finish is appended unchanged, however many
\* steps follow that run_sql step.
C8_finish_passes_any_distance ==
    (Decided /\ proposed.action = "finish" /\ LastRunSqlGood(Front(steps)))
        => PassedUnchanged

\* C8 (amended): when the last run_sql step of the trace is among its last 6
\* steps and has ok=true and a non-empty preview, a proposed finish is
\* appended unchanged.
C8_finish_passes_within_lookback ==
    (/\ Decided
     /\ proposed.action = "finish"
     /\ LastRunSqlGood(Front(steps))
     /\ LastRunSqlAt(Front(steps)) > Len(Front(steps)) - Lookback)
        => PassedUnchanged

\* the last run_sql step is the sixth step from the end and finish passed
C8_witness ==
    /\ Decided
    /\ proposed.action = "finish"
    /\ LastRunSqlGood(Front(steps))
    /\ LastRunSqlAt(Front(steps)) = Len(Front(steps)) - Lookback + 1
    /\ PassedUnchanged

\* C9: when a sample_rows step with ok=true and a non-empty preview lies within
\* the last 6 steps of the trace, a proposed finish is appended as finish.
C9_sample_rows_is_evidence ==
    (/\ Decided
     /\ proposed.action = "finish"
     /\ \E i \in DOMAIN LastN(Front(steps), Lookback) :
           IsEvidence(LastN(Front(steps), Lookback)[i], {"sample_rows"}))
        => Last(steps).action = "finish"

\* C10: when finish is proposed and the last 6 steps of the trace hold no
\* run_sql step with ok=true and a non-empty preview, the step decide appends
\* is list_tables, describe_table or run_sql.
C10_rewrite_is_exploration ==
    (Decided /\ proposed.action = "finish"
        /\ ~_has_recent_sql_evidence(Front(steps), Lookback))
        => Last(steps).action \in {"list_tables", "describe_table", "run_sql"}

\* a finish without evidence on a counting question, with every candidate
\* table described, was rewritten to the COUNT statement
C10_witness ==
    /\ Decided
    /\ proposed.action = "finish"
    /\ Len(known_schemas) = Min(TopK, Len(DbTables))
    /\ ~_has_recent_sql_evidence(Front(steps), Lookback)
    /\ Last(steps).action = "run_sql"
    /\ Last(steps).args.sql = count_sql("users")


-----------------------------------------------------------------------------
(* The guard's LIMIT handling, first statement and idempotence             *)

GuardAccepted == g_out # NotCalled /\ ~g_out.raised

\* the values of the LIMIT clauses of a text (the word LIMIT, whitespace, a
\* number), from position i on, in order
RECURSIVE LimitClausesFrom(_, _)
LimitClausesFrom(u, i) ==
    IF i > Len(u) THEN <<>>
    ELSE IF wb(u, i) /\ limit_at(u, i)
    THEN LET j == skip_s(u, i + 5)
             e == skip_d(u, j)
         IN <<int(SubSeq(u, j, e - 1))>> \o LimitClausesFrom(u, e)
    ELSE LimitClausesFrom(u, i + 1)

LimitClauses(s) == LimitClausesFrom(upper(s), 1)

\* the text before the first ";" of s
FirstStatement(s) ==
    SubSeq(s, 1, CHOOSE n \in 0..Len(s) :
                    /\ \A k \in 1..n : s[k] # ";"
                    /\ n < Len(s) => s[n + 1] = ";")

\* s without its digits
NoDigits(s) == SelectSeq(s, LAMBDA c : c \notin DigitSet)

\* C13 (as stated): an accepted statement with LIMIT clauses comes back with
\* every clause above max_limit set to max_limit and every other clause as
\* it was.
C13_limit_capped_else_kept ==
    (g_pass = 0 /\ GuardAccepted) =>
        \E before \in {LimitClauses(FirstStatement(strip_comments(g_in)))} :
            before # <<>> =>
                LimitClauses(g_out.sql) =
                    [i \in DOMAIN before |-> Min(before[i], g_max)]

\* C14 (as stated): an accepted statement without a LIMIT clause comes back
\* with exactly one LIMIT clause, and its value is default_limit.
C14_default_limit_appended ==
    (g_pass = 0 /\ GuardAccepted
       /\ LimitClauses(FirstStatement(strip_comments(g_in))) = <<>>)
    => LimitClauses(g_out.sql) = <<g_default>>

\* C15: the statement returned for an accepted input holds no ";" and is the
\* first statement of the input (the text before the first ";" once comments
\* are stripped, without surrounding whitespace), apart from the numbers of
\* its LIMIT clauses and at most one appended LIMIT clause.
C15_only_first_statement ==
    (g_pass = 0 /\ GuardAccepted) =>
        \E first \in {NoDigits(strip(FirstStatement(strip_comments(g_in))))} :
            /\ ";" \notin Range(g_out.sql)
            /\ NoDigits(g_out.sql) \in {first, first \o <<" ","L","I","M","I","T"," ">>}

\* an accepted input with text after its first ";"
C15_witness ==
    /\ g_pass = 0 /\ GuardAccepted
    /\ \E i \in 1..(Len(g_in) - 1) :
          /\ g_in[i] = ";"
          /\ g_in[i + 1] \notin SpaceSet \cup {";"}
          /\ ";" \in Range(strip_comments(g_in))

\* C16 (as stated): the guard accepts the statement it returned and returns
\* it unchanged, for the same default_limit and max_limit.
C16_guard_idempotent ==
    (g_pass >= 1 /\ g_out # NotCalled) => (~g_out.raised /\ g_out.sql = g_in)


-----------------------------------------------------------------------------
(* The executor's answer to a rejected statement                           *)

\* C17 (as stated): when the guard rejects the statement of a run_sql call,
\* the executor's result is ok=false with the error code UNSAFE_SQL, both for
\* db_read_query (seen in the observation act records) and for the MCP tool
\* run_sql.
C17_rejection_reported_as_unsafe_sql ==
    /\ (pc = "judge" /\ steps # <<>> /\ Last(steps).action = "run_sql"
          /\ ensure_safe_sql(Last(steps).args.sql, ReadLimit, Max(ReadLimit, 1000)).raised)
       => (~Last(steps).observation.ok /\ Last(steps).observation.error = "UNSAFE_SQL")
    /\ (m_res # McpNotCalled /\ mcp_ensure_safe_sql(m_sql).raised)
       => (~m_res.ok /\ m_res.code = "UNSAFE_SQL")


-----------------------------------------------------------------------------
(* Attempts of a run_sql step, and the end of a run on the step budget     *)

\* C19 (as stated): the failing observation of a run_sql step carries a
\* retryable code only after three attempts at the executor, and any other
\* code after a single attempt.
C19_retryable_run_sql_attempted_thrice ==
    (pc = "judge" /\ steps # <<>> /\ Last(steps).action = "run_sql"
       /\ ~Last(steps).observation.ok /\ conn # <<>>)
    => Len(conn) = IF Last(steps).observation.error \in RETRYABLE THEN 3 ELSE 1

\* C20 (as stated): once decide has found the budget used up, the run ends
\* with done=true and the budget answer, no statement has reached the
\* executor since, and the steps are those of the answer's trace, with
\* their observations.
C20_budget_stops_at_once ==
    (pc \in {"judge", "END"} /\ answer.set /\ answer.reason = "step_budget_exceeded")
    => (done /\ conn = <<>> /\ steps = answer.trace)


-----------------------------------------------------------------------------
(* The decision validate_decide returns                                    *)

\* the value is a JSON object with an admitted action, a thought that is a
\* string or absent, and args that are an object or absent
WellFormed(raw) ==
    /\ raw.kind = "object"
    /\ raw.action.t = "str" /\ raw.action.v \in ActionName
    /\ raw.thought.t \in {"str", "missing"}
    /\ raw.args.t \in {"dict", "missing"}

\* C18 (as stated): validate_decide never raises, the decision it returns
\* names one of the five admitted actions, and for a value that is not a
\* well-formed decision it is the safe default: list_tables, no args, a
\* thought that is not empty.
C18_validate_decide_total ==
    /\ exc # "TypeError"
    /\ Decided =>
          /\ proposed.action \in ActionName
          /\ ~WellFormed(run.raw) =>
                /\ proposed.action = "list_tables"
                /\ proposed.args = NoArgs
                /\ proposed.thought # <<>>


-----------------------------------------------------------------------------
(* The rewrite of a finish proposed without evidence                       *)

\* where t stands in the sequence xs
IndexIn(xs, t) == CHOOSE i \in 1..Len(xs) : xs[i] = t

\* the place of a known table among the candidates: tables named in the
\* question first, then tables whose schema is known, then the other tables
CandidateKey(q, known, ks, t) ==
    IF t \in Range(q) THEN IndexIn(known, t)
    ELSE IF t \in Range(SchemaKeys(ks)) THEN 100 + IndexIn(SchemaKeys(ks), t)
    ELSE 200 + IndexIn(known, t)

\* the known tables in the order of their places, cut to the first TopK
Candidates(q, known, ks) ==
    LET n == Len(known)
        ordered == CHOOSE c \in [1..n -> Range(known)] :
                      \A i, j \in 1..n :
                          i < j => CandidateKey(q, known, ks, c[i])
                                     < CandidateKey(q, known, ks, c[j])
    IN SubSeq(ordered, 1, Min(TopK, n))

\* the action and arguments the rewrite yields, as a function of the
\* question, the known tables and the known schemas
Rewritten(q, known, ks) ==
    IF known = <<>> THEN <<"list_tables", NoArgs>>
    ELSE LET c == Candidates(q, known, ks)
             unseen == {i \in 1..Len(c) : c[i] \notin Range(SchemaKeys(ks))}
         IN IF unseen # {}
            THEN <<"describe_table", TableArg(c[CHOOSE i \in unseen : \A j \in unseen : i <= j])>>
            ELSE IF \E w \in Range(q) : w \in CountKeys
            THEN <<"run_sql", SqlArg(count_sql(c[1]))>>
            ELSE <<"run_sql", SqlArg(sample_sql(c[1], SampleLimit))>>

\* C12: when decide rewrites a proposed finish, the step it appends is the
\* one function of (question, known_tables, known_schemas) the claim states:
\* list_tables without arguments when no table is known, else
\* describe_table of the first of the top three candidates that has no
\* schema, else run_sql with the COUNT statement on the first candidate for
\* a counting question and with the sample statement (LIMIT 5) otherwise.
C12_rewrite_follows_candidates ==
    (Decided /\ proposed.action = "finish" /\ ~PassedUnchanged) =>
        <<Last(steps).action, Last(steps).args>>
            = Rewritten(question, known_tables, known_schemas)

\* a rewrite to run_sql while a known table beyond the top three
\* candidates has no schema, and a table not named in the question was
\* described before one that stands earlier in known_tables
C12_witness ==
    /\ Decided /\ proposed.action = "finish" /\ ~PassedUnchanged
    /\ Last(steps).action = "run_sql"
    /\ Len(known_tables) > TopK
    /\ Len(known_schemas) = TopK
    /\ \E i \in 1..Len(known_schemas) :
          /\ known_schemas[i].table \notin Range(question)
          /\ \E t \in Range(known_tables) :
                /\ t \notin Range(SchemaKeys(known_schemas)) \cup Range(question)
                /\ IndexIn(known_tables, t) < IndexIn(known_tables, known_schemas[i].table)

\* C11 (as stated): in a run where every decision is finish and every
\* executor call succeeds, the rewrites lead to evidence and the run reaches
\* an accepted finish with done=true (unless the step budget ends it first).
C11_finish_run_reaches_accepted_finish ==
    <>(\/ (done /\ answer.set /\ answer.ok)
       \/ (answer.set /\ answer.reason = "step_budget_exceeded"))


-----------------------------------------------------------------------------
(* The guard's output: every LIMIT capped, no comment left                 *)

\* C23 (as stated): every LIMIT clause of a statement the guard returns has
\* a value of at most max_limit, also when the statement holds several.
C23_every_limit_within_max ==
    GuardAccepted =>
        \E after \in {LimitClauses(g_out.sql)} :
            \A i \in DOMAIN after : after[i] <= g_max

\* C24 (as stated): a statement the guard returns holds, outside string
\* literals, neither the opener of a line comment nor a block comment.
C24_output_free_of_comments ==
    GuardAccepted =>
        \A i \in 1..Len(g_out.sql) :
            OutsideLiteral(g_out.sql, i) =>
                /\ ~At(g_out.sql, i, <<"-","-">>)
                /\ ~(At(g_out.sql, i, <<"/","*">>)
                      /\ \E j \in (i + 2)..Len(g_out.sql) : At(g_out.sql, j, <<"*","/">>))


-----------------------------------------------------------------------------
(* The trace: steps, known_tables, known_schemas, last_error               *)

\* the suffixes of a step list, the whole list and the empty one included
Suffixes(st) == {SubSeq(st, k, Len(st)) : k \in 1..(Len(st) + 1)}

\* C25 (as stated): a transition changes the step list only by cutting it to
\* a suffix and/or appending one step at its end, or by act recording the
\* observation of the last step while that step has none; a step whose
\* observation is recorded keeps its action, args and observation.
C25_steps_appended_or_cut_recorded_steps_frozen ==
    [][\/ \E kept \in Suffixes(steps) :
             \/ steps' = kept
             \/ steps' # <<>> /\ Front(steps') = kept
                              /\ ~Last(steps').observation.set
       \/ /\ steps # <<>>
          /\ Len(steps') = Len(steps)
          /\ Front(steps') = Front(steps)
          /\ ~Last(steps).observation.set
          /\ Last(steps').action = Last(steps).action
          /\ Last(steps').args = Last(steps).args]_vars

\* C26 (as stated): no transition replaces or removes an entry of
\* known_schemas, and known_tables only grows and stays sorted and free of
\* duplicates.
C26_schemas_write_once_tables_grow ==
    [][/\ \A i \in DOMAIN known_schemas :
             \E j \in DOMAIN known_schemas' : known_schemas'[j] = known_schemas[i]
       /\ \A i \in DOMAIN known_tables :
             \E j \in DOMAIN known_tables' : known_tables'[j] = known_tables[i]
       /\ known_tables' = SortedSet(known_tables')]_vars

\* C27 (as stated): act records the observation of the step it executed;
\* when that observation fails, last_error becomes its error code, and when
\* it succeeds last_error keeps its value.  Judge changes last_error only to
\* premature_finish, and decide leaves it alone.
C27_last_error_tracks_failing_observations ==
    [][/\ (pc = "act" /\ steps # <<>> /\ exc' # "GraphRecursionError") =>
             /\ pc' = "judge"
             /\ \E o \in {Last(steps').observation} :
                   /\ o.set
                   /\ last_error' = IF o.ok THEN last_error ELSE o.error
       /\ pc = "judge" => last_error' \in {last_error, "premature_finish"}
       /\ pc \notin {"act", "judge"} => last_error' = last_error]_vars


-----------------------------------------------------------------------------
(* mcp/src/core: the ReAct engine and the conversation coordinator.        *)
(* A text is a sequence of words, `keyword in text` is membership of the   *)
(* word; the Chinese words of the source are written in pinyin.  A JSON    *)
(* value is the record of what the code reads of it: its kind, its         *)
(* top-level keys, the kind of its "data" member and the words of its dump.*)

Has(text, w) == \E i \in DOMAIN text : text[i] = w

\* _handle_finish_step: requires_data_keywords
RequiresDataKeywords == {"juli", "julizi", "zhanshi", "liechu", "younaxie",
                         "baohannaxieshuju", "jutishuju", "shujuneirong"}
\* _handle_finish_step: the words that make has_actual_data true
DataWords == {"aircraft_id", "aircraft_name", "aircraft_code", "rows", "sample_rows"}
\* run_conversation_stream: the keywords of is_continue_request
ContinueKeywords == {"jixu", "continue", "jixuzhixing", "jixurenwu", "jixuzhiqian"}

NoJson == [kind |-> "none", top |-> {}, data |-> "absent", words |-> {}]
EmptyDict == [kind |-> "dict", top |-> {}, data |-> "absent", words |-> {}]

\* tools/database/database_tools.py: the results of the tools
_format_success(words) ==
    [kind |-> "dict", top |-> {"ok", "data"}, data |-> "dict",
     words |-> {"ok", "data"} \cup words]
_format_error(c) ==
    [kind |-> "dict", top |-> {"ok", "error"}, data |-> "absent",
     words |-> {"ok", "error", "code", "message", c}]
\* the text sample_rows holds the text rows
ToolResult(tool, o) ==
    IF o = "error" THEN _format_error("DATABASE_ERROR")
    ELSE IF tool = "list_tables" THEN _format_success({"tables", "count", "summary"})
    ELSE IF tool = "describe_table"
    THEN _format_success({"table", "columns", "column_count", "summary"})
    ELSE IF tool = "sample_rows"
    THEN _format_success({"table", "columns", "sample_rows", "rows", "row_count",
                          "summary"})
    ELSE _format_success({"columns", "rows", "row_count", "summary"})

Msg(role, text, json) == [role |-> role, text |-> text, json |-> json]
build_system_message == Msg("system", <<"prompt">>, NoJson)
\* {"role": "user", "content": "guancha: " + json.dumps(tool_result)}
build_observation_message(tool_result) == Msg("user", <<"guancha:">>, tool_result)

\* ---- react_engine.py
IsUser(m) == m.role = "user"

\* any(keyword in last_user_query ...), last_user_query = user_queries[-1]
requires_data(msgs) ==
    \E user_queries \in {SelectSeq(msgs, IsUser)} :
        /\ user_queries # <<>>
        /\ \E k \in RequiresDataKeywords : Has(Last(user_queries).text, k)

\* the index of the last message of role user, 0 when there is none
last_user_idx(msgs) ==
    IF \E i \in DOMAIN msgs : IsUser(msgs[i])
    THEN CHOOSE i \in DOMAIN msgs :
            IsUser(msgs[i]) /\ \A j \in (i + 1)..Len(msgs) : ~IsUser(msgs[j])
    ELSE 0

\* one message of the loop over messages[last_user_idx + 1:]
IsDataObservation(m) ==
    /\ Has(m.text, "guancha:")
    /\ m.json.kind = "dict"
    /\ \/ m.json.top \cap {"rows", "sample_rows"} # {}
       \/ "data" \in m.json.top /\ m.json.data = "list"
       \/ m.json.words \cap DataWords # {}

has_data_query(msgs) ==
    \E i \in (last_user_idx(msgs) + 1)..Len(msgs) : IsDataObservation(msgs[i])

\* the dictionaries execute_react_step returns: type and the members of data
ReactResult(type, error_type, error, tool_name, result) ==
    [type |-> type, error_type |-> error_type, error |-> error,
     tool_name |-> tool_name, result |-> result]

PrematureText == <<"yonghu", "yaoqiu", "juli", "huo", "zhanshi", "shuju",
                   "sample_rows", "run_sql">>

_handle_finish_step(msgs) ==
    IF msgs # <<>> /\ requires_data(msgs) /\ ~has_data_query(msgs)
    THEN ReactResult("error", "premature_finish", PrematureText, "None", NoJson)
    ELSE ReactResult("finish", "None", <<>>, "None", NoJson)

\* o = "raise": execute_tool raises; the data of the error has no error_type
_handle_action_step(decision, o) ==
    IF o = "raise"
    THEN ReactResult("error", "unknown", <<"tool", "failed">>, decision.action, NoJson)
    ELSE ReactResult("action", "None", <<>>, decision.action,
                     ToolResult(decision.action, o))

\* a reply of form text holds no JSON object: _extract_json_from_response
\* raises and the except branch answers json_parse_error
execute_react_step(msgs, reply, o) ==
    IF reply.form = "text"
    THEN ReactResult("error", "json_parse_error", <<"JSONjiexi", "shibai">>,
                     "None", NoJson)
    ELSE IF reply.step_type = "reasoning"
    THEN ReactResult("reasoning", "None", <<>>, "None", NoJson)
    ELSE IF reply.step_type = "action" THEN _handle_action_step(reply, o)
    ELSE _handle_finish_step(msgs)

\* ---- conversation_coordinator.py
\* observation = data.get("result", {}), action = data.get("tool_name", "")
_create_step(step_index, step_type, data) ==
    [step_index |-> step_index, step_type |-> step_type,
     action |-> IF data.tool_name = "None" THEN "" ELSE data.tool_name,
     observation |-> IF data.result.kind = "none" THEN EmptyDict ELSE data.result]

\* sum(1 for step in state.steps if step.step_type == "error"
\*     and "JSONjiexi" in str(step.observation))
json_error_count(sts) ==
    Cardinality({i \in DOMAIN sts :
                    /\ sts[i].step_type = "error"
                    /\ "JSONjiexi" \in sts[i].observation.words})

RecentWindow == 10

\* texts shorter than message_compress_max_length: only the window applies
_compress_messages_for_llm(full) ==
    IF Len(full) <= RecentWindow THEN full
    ELSE LET sys  == full[1].role = "system"
             conv == IF sys THEN Tail(full) ELSE full
         IN IF Len(conv) > RecentWindow
            THEN (IF sys THEN <<full[1]>> ELSE <<>>)
                 \o <<Msg("system", <<"zhaiyao">>, NoJson)>>
                 \o LastN(conv, RecentWindow)
            ELSE full


FormatErrorText == <<"baoqian", "geshi", "wenti">>

\* the body of the try block for the result r of execute_react_step: the new
\* state and messages, the events yielded after thinking, and whether the
\* loop is left by break
Pass(st, msgs, r) ==
    IF r.type = "reasoning"
    THEN LET ms2 == Append(msgs, Msg("assistant", <<"sikao:">>, NoJson))
         IN [state |-> [st EXCEPT
                           !.steps = Append(@, _create_step(Len(st.steps),
                                                            "reasoning", r)),
                           !.messages = ms2],
             messages |-> ms2, events |-> <<"step">>, brk |-> FALSE]
    ELSE IF r.type = "action"
    THEN LET st2 == Append(st.steps, _create_step(Len(st.steps), "action", r))
             st3 == Append(st2, _create_step(Len(st2), "observation", r))
             ms2 == msgs \o <<Msg("assistant", <<"xingdong:">>, NoJson),
                              build_observation_message(r.result)>>
         IN [state |-> [st EXCEPT !.steps = st3, !.messages = ms2],
             messages |-> ms2, events |-> <<"step", "step">>, brk |-> FALSE]
    ELSE IF r.type = "error"
    THEN LET st2 == Append(st.steps, _create_step(Len(st.steps), "error", r))
         IN IF r.error_type = "json_parse_error"
            THEN IF json_error_count(st2) >= 3
                 THEN LET ms2 == Append(msgs, Msg("assistant", FormatErrorText,
                                                  NoJson))
                      IN [state |-> [st EXCEPT
                                        !.steps = st2, !.done = TRUE,
                                        !.answer = [set |-> TRUE, ok |-> FALSE,
                                                    data |-> "format_error"],
                                        !.messages = ms2],
                          messages |-> ms2, events |-> <<"step", "finish">>,
                          brk |-> TRUE]
                 ELSE [state |-> [st EXCEPT !.steps = st2],
                       messages |-> Append(msgs, Msg("user", <<"geshicuowu:">>
                                                     \o r.error, NoJson)),
                       events |-> <<"step">>, brk |-> FALSE]
            ELSE [state |-> [st EXCEPT !.steps = st2],
                  messages |-> Append(msgs, Msg("user", <<"cuowu:">> \o r.error,
                                                NoJson)),
                  events |-> <<"step">>, brk |-> FALSE]
    ELSE LET ms2 == Append(msgs, Msg("assistant", <<"answer">>, NoJson))
         IN [state |-> [st EXCEPT !.done = TRUE,
                                  !.answer = [set |-> TRUE, ok |-> TRUE,
                                              data |-> "answer"],
                                  !.messages = ms2],
             messages |-> ms2, events |-> <<"finish">>, brk |-> TRUE]

\* lines 48-52: the loaded state takes the new budget; done and answer are reset
\* (variant that keeps them, to test the properties)
rehydrate_stale(loaded_state, ms) == [loaded_state EXCEPT !.max_steps = ms]
rehydrate(loaded_state, ms) ==
    [loaded_state EXCEPT !.max_steps = ms, !.done = FALSE, !.answer = NoCoAnswer]

\* lines 63-72: messages rebuilt from the steps when none were saved
RECURSIVE rebuild(_)
rebuild(sts) ==
    IF sts = <<>> THEN <<>>
    ELSE (IF Head(sts).step_type = "reasoning"
          THEN <<Msg("assistant", <<"sikao:">>, NoJson)>>
          ELSE IF Head(sts).step_type = "action"
          THEN <<Msg("assistant", <<"xingdong:">>, NoJson)>>
               \o (IF Head(sts).observation # EmptyDict
                   THEN <<build_observation_message(Head(sts).observation)>>
                   ELSE <<>>)
          ELSE <<>>)
         \o rebuild(Tail(sts))

\* lines 56-75: the messages of a run on a loaded state
restore(loaded_state, user_input) ==
    <<build_system_message>>
    \o (IF loaded_state.messages # <<>>
        THEN IF loaded_state.messages[1].role = "system"
             THEN Tail(loaded_state.messages) ELSE loaded_state.messages
        ELSE <<Msg("user", loaded_state.question, NoJson)>>
             \o rebuild(loaded_state.steps))
    \o <<Msg("user", user_input, NoJson)>>

\* str.lower on a text
lower(text) == [i \in DOMAIN text |-> IF text[i] = "Continue" THEN "continue"
                                      ELSE text[i]]
is_continue_request(user_input) ==
    \E k \in ContinueKeywords : Has(lower(user_input), k)

\* lines 281-306: the events after the loop
\* (variant that pauses after a finished run too, to test the properties)
exit_events_pause(st) == <<"pause", "state_snapshot">>
exit_events(st) ==
    IF ~st.done THEN <<"pause", "state_snapshot">> ELSE <<"state_snapshot">>

\* run_conversation_stream up to the while loop; load_conversation answers
\* the state the session's last snapshot was saved with
CallOn(E) ==
    /\ c_pc \in {"idle", "ended"}
    /\ call.n < E.calls
    /\ \E user_input \in E.inputs, ms \in E.budgets, cc \in E.cont :
       \E loaded \in {cc /\ saved.exists} :
       \E st \in {IF loaded THEN rehydrate(saved.state, ms)
                  ELSE AgentState(user_input, ms)} :
          /\ state' = st
          /\ messages' = IF loaded THEN restore(saved.state, user_input)
                         ELSE <<build_system_message, Msg("user", user_input, NoJson)>>
          /\ step_count' = IF cc /\ is_continue_request(user_input)
                           THEN Len(st.steps) ELSE 0
          /\ call' = [user_input |-> user_input, max_steps |-> ms,
                      continue_conversation |-> cc, n |-> call.n + 1,
                      loaded |-> loaded,
                      loaded_done |-> loaded /\ saved.state.done,
                      resumes |-> /\ loaded /\ is_continue_request(user_input)
                                  /\ call.ended = "limit" /\ ms = call.max_steps,
                      results |-> <<>>, starts |-> <<>>, ended |-> "None",
                      broke |-> "None"]
    /\ events' = <<>>
    /\ c_pc' = "loop"
    /\ UNCHANGED saved

\* the executor's answers to a reply: "decimal" is a result holding a value
\* json.dumps cannot write, so that _create_step raises inside the try block
ToolOutcomes(E, reply) ==
    IF reply.form = "json" /\ reply.step_type = "action" THEN E.outcomes ELSE {"-"}

\* one pass of the while loop
IterateOn(E) ==
    /\ c_pc = "loop"
    /\ ~state.done /\ step_count < call.max_steps
    /\ step_count' = step_count + 1
    /\ \E reply \in E.replies : \E o \in ToolOutcomes(E, reply) :
       \E r \in {execute_react_step(_compress_messages_for_llm(messages), reply, o)} :
          IF o = "decimal"
          THEN /\ events' = events \o <<"thinking", "error">>
               /\ c_pc' = "exit"
               /\ call' = [call EXCEPT !.results = Append(@, "exception"),
                                       !.starts = Append(@, Len(events) + 1),
                                       !.broke = "error"]
               /\ UNCHANGED <<state, messages>>
          ELSE \E p \in {Pass(state, messages, r)} :
               /\ state' = p.state
               /\ messages' = p.messages
               /\ events' = events \o <<"thinking">> \o p.events
               /\ c_pc' = IF p.brk THEN "exit" ELSE "loop"
               /\ call' = [call EXCEPT
                              !.results = Append(@, IF r.type = "error"
                                                    THEN r.error_type ELSE r.type),
                              !.starts = Append(@, Len(events) + 1),
                              !.broke = IF p.brk THEN "finish" ELSE @]
    /\ UNCHANGED saved

\* after the loop: the pause, the snapshot, and the caller saving the
\* snapshot's state for the session
Exit ==
    /\ \/ c_pc = "exit"
       \/ c_pc = "loop" /\ ~(~state.done /\ step_count < call.max_steps)
    /\ \E ms2 \in {IF ~state.done
                   THEN Append(messages, Msg("assistant", <<"zongjie", "jixu">>,
                                             NoJson))
                   ELSE messages} :
       \E st \in {IF ~state.done THEN [state EXCEPT !.messages = ms2] ELSE state} :
          /\ messages' = ms2
          /\ state' = st
          /\ saved' = [exists |-> TRUE, state |-> st]
    /\ events' = events \o exit_events(state)
    /\ call' = [call EXCEPT !.ended = IF state.done THEN "finish"
                                      ELSE IF c_pc = "exit" THEN "error"
                                      ELSE "limit"]
    /\ c_pc' = "ended"
    /\ UNCHANGED step_count
    /\ UNCHANGED <<gvars, mvars, pvars>>

MaxCalls == 2
MaxCoSteps == 2
MaxReactCalls == 1
MaxReactSteps == 4

Reply(form, step_type, action) ==
    [form |-> form, step_type |-> step_type, action |-> action]

\* two calls for a session; the language model reasons, asks for sample
\* rows or finishes, and a tool result may hold a value json.dumps cannot
\* write
CoordEnv == [calls |-> MaxCalls,
             inputs |-> {<<"count", "users">>, <<"jixu">>},
             budgets |-> 1..MaxCoSteps, cont |-> BOOLEAN,
             replies |-> {Reply("json", "reasoning", "None"),
                          Reply("json", "action", "sample_rows"),
                          Reply("json", "finish", "None")},
             outcomes |-> {"ok", "decimal"}]
\* one call with a question that asks for examples or one that does not;
\* every kind of reply, tools that succeed, fail or raise
ReactEnv == [calls |-> MaxReactCalls,
             inputs |-> {<<"juli", "users">>, <<"count", "users">>},
             budgets |-> {MaxReactSteps}, cont |-> {FALSE},
             replies |-> {Reply("text", "None", "None"),
                          Reply("json", "reasoning", "None"),
                          Reply("json", "action", "list_tables"),
                          Reply("json", "action", "sample_rows"),
                          Reply("json", "finish", "None")},
             outcomes |-> {"ok", "error", "raise"}]

Call == CallOn(CoordEnv) /\ UNCHANGED <<gvars, mvars, pvars>>
Iterate == IterateOn(CoordEnv) /\ UNCHANGED <<gvars, mvars, pvars>>
CallReact == CallOn(ReactEnv) /\ UNCHANGED <<gvars, mvars, pvars>>
IterateReact == IterateOn(ReactEnv) /\ UNCHANGED <<gvars, mvars, pvars>>

InitCoord == GuardIdle /\ McpIdle /\ PlannerIdle /\ CoordIdle
NextCoord == Call \/ Iterate \/ Exit
SpecCoord == InitCoord /\ [][NextCoord]_vars

NextReact == CallReact \/ IterateReact \/ Exit
SpecReact == InitCoord /\ [][NextReact]_vars


-----------------------------------------------------------------------------
(* The coordinator's runs                                                  *)

Count(seq, x) == Cardinality({i \in DOMAIN seq : seq[i] = x})

\* C21 (as stated): when the question of the run holds a requires-data
\* keyword and no observation with row-level data has been made in the run,
\* a proposed finish is not accepted: no run ends finished.
C21_finish_rejected_without_row_data ==
    (/\ c_pc \in {"loop", "exit", "ended"}
     /\ \E k \in RequiresDataKeywords : Has(call.user_input, k)
     /\ ~\E i \in DOMAIN state.steps :
            /\ state.steps[i].step_type = "observation"
            /\ state.steps[i].observation.words \cap {"rows", "sample_rows"} # {})
        => ~state.done

C28_continue_resumes_paused_run ==
    (c_pc = "ended" /\ call.resumes) => call.results # <<>>

\* C29 (as stated): a run in which the reply has failed to parse three times
\* asks for no further reply: it is finished with answer.ok = false.
C29_three_parse_failures_end_run ==
    Count(call.results, "json_parse_error") >= 3
        => /\ c_pc \in {"exit", "ended"}
           /\ state.done /\ state.answer.set /\ ~state.answer.ok
           /\ Has(events, "finish")

=============================================================================
